---- MODULE Spec2Model ----
(***************************************************************************)
(* Model of the answer pipeline of the voice web chatbot: web_answer and   *)
(* the functions it calls, as written in src/app.py, the spell fix of the  *)
(* three variants, and the audio session state with its four playback      *)
(* functions.                                                              *)
(*                                                                         *)
(* Strings are modelled as sequences of tokens.  A text (title, snippet,   *)
(* page text) is a sequence of words [w, end]: w is the word, end says     *)
(* that the word carries a terminal '.', '!' or '?'; consecutive words are *)
(* separated by whitespace.  A question is a sequence of string tokens in  *)
(* which " " is one space, "\t" one whitespace character other than the   *)
(* space, and adjacent tokens with no whitespace between them are written  *)
(* without a gap.                                                          *)
(***************************************************************************)
EXTENDS Integers, Sequences, FiniteSets, TLC

VARIABLES
    \* ---- one invocation of web_answer ----
    pc,          \* position in web_answer
    user_query,  \* argument user_query
    sentences,   \* argument sentences (k)
    q1,          \* cleaned, spell-fixed question
    results,     \* list results
    first,       \* history: what the first search call returned
    phrase,      \* phrase of the first suggestion, when it triggers a search
    to_fetch,    \* list to_fetch (prelim sorted and cut to FETCH_TOP)
    fi,          \* index of the next entry of to_fetch
    candidates,  \* list candidates
    sources,     \* list sources
    ret,         \* how web_answer ended: returned (answer, sources) or raised
    calls,       \* history: collaborator calls made, in order
    \* ---- one call of summarize ----
    s_pc, s_text, s_qwords, s_k, s_out,
    \* ---- one call of clean_question, soft_spellfix or extract_readable ----
    f_pc,        \* "idle", "call" or "done"
    f_arg,       \* the arguments and the collaborators' behaviour
    f_out,       \* what the call gave
    \* ---- the audio session state (st.session_state) ----
    HAVE_PYGAME, \* whether import pygame succeeded
    pygame_init, \* st.session_state.pygame_init
    audio,       \* st.session_state.audio: file, is_playing, is_paused
    a_log        \* history: the audio calls made, each with the state before

pvars == <<pc, user_query, sentences, q1, results, first, phrase, to_fetch, fi,
           candidates, sources, ret, calls>>
svars == <<s_pc, s_text, s_qwords, s_k, s_out>>
fvars == <<f_pc, f_arg, f_out>>
avars == <<HAVE_PYGAME, pygame_init, audio, a_log>>
vars  == <<pvars, svars, fvars, avars>>

-----------------------------------------------------------------------------
(* Bounds of the model *)

\* longest text given to summarize, in sentences
MaxSents == 4
\* largest k given to summarize
MaxK == 3

-----------------------------------------------------------------------------
(* Generic helpers *)

Max(a, b) == IF a >= b THEN a ELSE b
Min(a, b) == IF a <= b THEN a ELSE b

\* Python's seq[:n]
Take(seq, n) == SubSeq(seq, 1, Min(Len(seq), Max(n, 0)))

RECURSIVE Flatten(_)
Flatten(ss) == IF ss = <<>> THEN <<>> ELSE Head(ss) \o Flatten(Tail(ss))

RECURSIVE Rep(_, _)
Rep(x, n) == IF n = 0 THEN <<>> ELSE <<x>> \o Rep(x, n - 1)

\* Python's list.sort / sorted: a stable sort.  before holds the pairs
\* <<i, j>> of positions for which the key of seq[i] is strictly smaller than
\* the key of seq[j]; elements with equal keys keep their order.
StableSort(seq, before) ==
    LET n == Len(seq)
        rank(i) == 1 + Cardinality({j \in 1..n :
                        \/ <<j, i>> \in before
                        \/ (<<i, j>> \notin before /\ j < i)})
    IN  [r \in 1..n |-> seq[CHOOSE i \in 1..n : rank(i) = r]]

-----------------------------------------------------------------------------
(* NLP helpers *)

STOP == {"a", "an", "the", "of", "for", "in", "on", "at", "to", "is", "are",
         "was", "were", "be", "and", "or", "by", "with", "from", "as",
         "about", "into", "over", "after", "before", "between", "than",
         "then", "this", "that", "those", "these", "who", "what", "where",
         "when", "which", "why", "how"}

\* str.lower() on one token
Lower(w) ==
    CASE w = "Paris"   -> "paris"
      [] w = "Capital" -> "capital"
      [] w = "Who"     -> "who"
      [] w = "Is"      -> "is"
      [] OTHER         -> w

\* a word of a text
W(w)  == [w |-> w, end |-> FALSE]
\* a word of a text carrying terminal punctuation
WE(w) == [w |-> w, end |-> TRUE]

\* len() of one token, in characters
CharLen(w) ==
    CASE w \in {" ", "\t", "?", ".", "!"}                   -> 1
      [] w \in {"is", "Is", "of", "me"}                     -> 2
      [] w \in {"the", "who", "Who", "why", "ory"}          -> 3
      [] w \in {"city", "dome", "tell", "what"}             -> 4
      [] w \in {"paris", "Paris", "about"}                  -> 5
      [] w \in {"france", "France", "theory"}               -> 6
      [] w \in {"capital", "Capital", "capitol"}            -> 7
      [] OTHER                                              -> 5

\* str.isalpha() on one token
IsAlpha(w) == w \notin {" ", "\t", "?", ".", "!"}

RECURSIVE SumLen(_)
SumLen(ws) == IF ws = <<>> THEN 0 ELSE CharLen(Head(ws)) + SumLen(Tail(ws))

RECURSIVE LStrip(_, _)
LStrip(q, chars) ==
    IF q # <<>> /\ Head(q) \in chars THEN LStrip(Tail(q), chars) ELSE q

RECURSIVE RStrip(_, _)
RStrip(q, chars) ==
    IF q # <<>> /\ q[Len(q)] \in chars
    THEN RStrip(SubSeq(q, 1, Len(q) - 1), chars) ELSE q

\* what str.strip(), str.split() and \s take for whitespace: the space and
\* the other whitespace characters, of which the tab stands for all
Whitespace == {" ", "\t"}

\* str.strip()
Strip(q) == RStrip(LStrip(q, Whitespace), Whitespace)

LowerAll(q) == [i \in DOMAIN q |-> Lower(q[i])]

Interrogatives == {<<"who">>, <<"what">>, <<"where">>, <<"when">>, <<"why">>,
                   <<"which">>, <<"tell", " ", "me", " ", "about">>}
Auxiliaries == {"is", "are", "was", "were", "the"}

\* does q start with the tokens of p (re.I: case-insensitive)
StartsWith(q, p) ==
    Len(q) >= Len(p) /\ LowerAll(SubSeq(q, 1, Len(p))) = p

\* the group (is|are|was|were|the)? has no word boundary: it also matches
\* the first letters of a longer word and leaves the rest of that word
AfterAuxiliary(w) ==
    IF Lower(w) \in Auxiliaries THEN <<>>
    ELSE IF w = "theory" THEN <<"ory">>
    ELSE <<w>>

\* re.sub(r"^\s*(who|...|tell me about)\s+(is|are|was|were|the)?\s*", "", q)
StripInterrogative(q) ==
    LET q_a == LStrip(q, Whitespace)
        heads == {p \in Interrogatives : StartsWith(q_a, p)}
    IN  IF heads = {} THEN q
        ELSE LET p   == CHOOSE h \in heads : TRUE
                 q_b == SubSeq(q_a, Len(p) + 1, Len(q_a))
             IN  IF q_b = <<>> \/ Head(q_b) \notin Whitespace THEN q
                 ELSE LET q_c == LStrip(q_b, Whitespace)
                          q_d == IF q_c = <<>> THEN q_c
                                 ELSE AfterAuxiliary(Head(q_c)) \o Tail(q_c)
                      IN  LStrip(q_d, Whitespace)

\* a plausible slip: the trailing punctuation is left in place
clean_question_keeps_punctuation(q) == Strip(StripInterrogative(Strip(q)))

\* clean_question(q)
clean_question(q) ==
    Strip(RStrip(StripInterrogative(Strip(q)), {"?", ".", "!", " "}))

\* str.split(): the maximal runs of non-whitespace tokens
RECURSIVE SplitWords(_, _)
SplitWords(q, cur) ==
    IF q = <<>> THEN (IF cur = <<>> THEN <<>> ELSE <<cur>>)
    ELSE IF Head(q) \in Whitespace
         THEN (IF cur = <<>> THEN <<>> ELSE <<cur>>) \o SplitWords(Tail(q), <<>>)
         ELSE SplitWords(Tail(q), Append(cur, Head(q)))

\* " ".join(words)
RECURSIVE JoinWords(_)
JoinWords(ws) ==
    IF ws = <<>> THEN <<>>
    ELSE IF Len(ws) = 1 THEN ws[1]
    ELSE ws[1] \o <<" ">> \o JoinWords(Tail(ws))

\* keywords(t): re.findall(r"[a-zA-Z]+", t.lower()) without the stop words.
\* Adjacent alphabetic tokens form one run.
RECURSIVE AlphaRuns(_, _)
AlphaRuns(q, cur) ==
    IF q = <<>> THEN (IF cur = <<>> THEN <<>> ELSE <<cur>>)
    ELSE IF ~IsAlpha(Head(q))
         THEN (IF cur = <<>> THEN <<>> ELSE <<cur>>) \o AlphaRuns(Tail(q), <<>>)
         ELSE AlphaRuns(Tail(q), Append(cur, Lower(Head(q))))

\* a run of one token is that word; a longer run is a word outside every list
RunWord(r) == IF Len(r) = 1 THEN r[1] ELSE "<compound>"

keywords(q) ==
    LET runs == AlphaRuns(q, <<>>)
    IN  {RunWord(runs[i]) : i \in DOMAIN runs} \ STOP

\* the candidates for the spell check: lowercase words longer than 6
\* characters, alphabetic, and no stop word
SpellCandidates(words) ==
    {LowerAll(words[i]) : i \in {j \in DOMAIN words :
        /\ SumLen(words[j]) > 6
        /\ \A n \in DOMAIN words[j] : IsAlpha(words[j][n])
        /\ RunWord(LowerAll(words[j])) \notin STOP}}

MaxCorrectionDelta == 2

Abs(n) == IF n < 0 THEN -n ELSE n

\* soft_spellfix(q) of src/app.py under a behaviour sp of the spell checker:
\*   sp.unknown    "raise", or "all" / "none" of the words given are unknown
\*   sp.correction "raise", or the word correction() returns (<<>> for None)
\* The result says whether an exception left the function, and q1.
soft_spellfix(q, sp) ==
    LET words   == SplitWords(q, <<>>)
        asked   == SpellCandidates(words)
        unknown == IF sp.unknown = "all" THEN asked ELSE {}
        hit     == \E i \in DOMAIN words : LowerAll(words[i]) \in unknown
        fix(w)  == LET wl   == LowerAll(w)
                       cand == sp.correction
                   IN  IF wl \in unknown /\ cand # <<>>
                          /\ Abs(SumLen(cand) - SumLen(wl)) <= MaxCorrectionDelta
                       THEN cand ELSE w
    IN  IF hit /\ sp.correction = <<"raise">>
        THEN [raised |-> TRUE, q |-> <<>>]
        ELSE [raised |-> FALSE,
              q |-> JoinWords([i \in DOMAIN words |-> fix(words[i])])]

-----------------------------------------------------------------------------
(* summarize *)

\* re.split(r"(?<=[.!?])\s+", text): cut after every word that carries
\* terminal punctuation and is followed by whitespace (i.e. by another word).
RECURSIVE SplitSents(_, _)
SplitSents(text, cur) ==
    IF text = <<>> THEN <<cur>>
    ELSE LET t == Head(text) IN
         IF t.end /\ Tail(text) # <<>>
         THEN <<Append(cur, t)>> \o SplitSents(Tail(text), <<>>)
         ELSE SplitSents(Tail(text), Append(cur, t))

\* sum(1 for w in words if w in qwords), words the non-stop lowercase words
Overlap(s, qwords) ==
    Cardinality({i \in 1..Len(s) :
        Lower(s[i].w) \notin STOP /\ Lower(s[i].w) \in qwords})

MinWords == 6
MaxWords == 40

\* 6 <= len(s.split()) <= 40
Eligible(s) == MinWords <= Len(s) /\ Len(s) <= MaxWords

\* the list scored: (overlap, i, s) for the eligible sentences, in text order
Scored(sents, qwords) ==
    LET idx == {i \in 1..Len(sents) : Eligible(sents[i])}
        RECURSIVE build(_)
        build(i) == IF i > Len(sents) THEN <<>>
                    ELSE (IF i \in idx
                          THEN <<[overlap |-> Overlap(sents[i], qwords),
                                  i |-> i, s |-> sents[i]]>>
                          ELSE <<>>) \o build(i + 1)
    IN  build(1)

\* a plausible slip: the overlap is left out of the key
RankByIndexOnly(a, b) == a.i < b.i

\* key=lambda x: (-x[0], x[1])
RankBefore(a, b) ==
    \/ a.overlap > b.overlap
    \/ (a.overlap = b.overlap /\ a.i < b.i)

\* key=lambda x: x[1]
IndexBefore(a, b) == a.i < b.i

\* the pairs of positions of seq that RankBefore / IndexBefore order
ByRank(seq)  == {p \in (DOMAIN seq) \X (DOMAIN seq) : RankBefore(seq[p[1]], seq[p[2]])}
ByIndex(seq) == {p \in (DOMAIN seq) \X (DOMAIN seq) : IndexBefore(seq[p[1]], seq[p[2]])}

\* scored.sort(key=lambda x: (-x[0], x[1]))
RankSorted(scored) == StableSort(scored, ByRank(scored))

\* a plausible slip: the final re-sort by original index is left out
ChosenUnsorted(ranked, k) == Take(ranked, Max(2, k))

\* a plausible slip: every eligible sentence is kept, the cut is left out
ChosenNoCut(ranked, k) == StableSort(ranked, ByIndex(ranked))

\* chosen = sorted(scored[:max(2,k)], key=lambda x: x[1])
Chosen(ranked, k) ==
    LET top == Take(ranked, Max(2, k)) IN StableSort(top, ByIndex(top))

\* summarize(text, qwords, k): the sentences returned, each with its index in
\* sents, and the path taken.  The returned string is the sentences joined by
\* single spaces.
summarize(text, qwords, k) ==
    IF text = <<>> THEN [path |-> "empty", idx |-> <<>>, sent |-> <<>>]
    ELSE
    LET sents  == SplitSents(text, <<>>)
        scored == Scored(sents, qwords)
    IN  IF scored = <<>>
        THEN LET n == Len(Take(sents, k)) IN
             [path |-> "fallback",
              idx  |-> [j \in 1..n |-> j],
              sent |-> Take(sents, k)]
        ELSE LET chosen == Chosen(RankSorted(scored), k) IN
             [path |-> "scored",
              idx  |-> [j \in 1..Len(chosen) |-> chosen[j].i],
              sent |-> [j \in 1..Len(chosen) |-> chosen[j].s]]

\* " ".join(...): the returned string as a text
Joined(out) == Flatten(out.sent)

-----------------------------------------------------------------------------
(* URLs, search results, scoring *)

\* A URL is its network location and its path, each a sequence of pieces of
\* the URL string; the empty string has neither.
NoUrl == [netloc |-> <<>>, path |-> <<>>]

BAD_DOMAINS == {"pinterest.", "quora.", "reddit.", "youtube.", "facebook.",
                "x.com", "twitter."}
MAX_RESULTS == 8
FETCH_TOP   == 3
TEXT_LIMIT  == 6000
USE_TRAFILATURA == FALSE

\* a plausible slip: the excluded-domain test never fires
IsBadNever(url) == FALSE

\* any(bad in url for bad in BAD_DOMAINS): a substring test on the whole URL
IsBad(url) ==
    LET pieces == url.netloc \o url.path
    IN  \E i \in DOMAIN pieces : pieces[i] \in BAD_DOMAINS

\* a plausible slip: .path for .netloc
NetlocAsPath(url) == url.path

\* urllib.parse.urlparse(url).netloc
Netloc(url) == url.netloc

\* len() of a text: the words, their punctuation, one space between words
RECURSIVE TextChars(_)
TextChars(t) ==
    IF t = <<>> THEN 0
    ELSE CharLen(Head(t).w) + (IF Head(t).end THEN 1 ELSE 0)
         + (IF Tail(t) = <<>> THEN 0 ELSE 1) + TextChars(Tail(t))

\* title + " " + body
Concat(title, body) == title \o body

\* sum(text.count(w) for w in qwords) on the lowercase text
Hits(text, qwords) ==
    Cardinality({i \in DOMAIN text : Lower(text[i].w) \in qwords})

ScoreScale == 1500

\* hits / (1 + len(text)/1500), kept as the pair it is computed from
Score(title, body, qwords) ==
    [hits |-> Hits(Concat(title, body), qwords),
     len  |-> TextChars(title) + 1 + TextChars(body)]

\* a.score > b.score:  ha/(1+la/1500) > hb/(1+lb/1500)
ScoreGreater(a, b) ==
    a.score.hits * (ScoreScale + b.score.len) > b.score.hits * (ScoreScale + a.score.len)

\* a plausible slip: sorted ascending
SortByScoreAscending(seq) ==
    StableSort(seq, {p \in (DOMAIN seq) \X (DOMAIN seq) : ScoreGreater(seq[p[2]], seq[p[1]])})

\* list.sort(key=lambda x: x[0], reverse=True): descending, stable
SortByScore(seq) ==
    StableSort(seq, {p \in (DOMAIN seq) \X (DOMAIN seq) : ScoreGreater(seq[p[1]], seq[p[2]])})

\* the loop over results: drop empty and repeated URLs and excluded domains,
\* score the rest on title and snippet
\* a plausible slip: seen is never filled, so a repeated URL is kept
RECURSIVE PrelimKeepsRepeats(_, _, _)
PrelimKeepsRepeats(res, seen, qwords) ==
    IF res = <<>> THEN <<>>
    ELSE LET r == Head(res) IN
         IF r.url = NoUrl \/ r.url \in seen \/ IsBad(r.url)
         THEN PrelimKeepsRepeats(Tail(res), seen, qwords)
         ELSE <<[score |-> Score(r.title, r.body, qwords),
                 title |-> r.title, url |-> r.url]>>
              \o PrelimKeepsRepeats(Tail(res), seen, qwords)

RECURSIVE Prelim(_, _, _)
Prelim(res, seen, qwords) ==
    IF res = <<>> THEN <<>>
    ELSE LET r == Head(res) IN
         IF r.url = NoUrl \/ r.url \in seen \/ IsBad(r.url)
         THEN Prelim(Tail(res), seen, qwords)
         ELSE <<[score |-> Score(r.title, r.body, qwords),
                 title |-> r.title, url |-> r.url]>>
              \o Prelim(Tail(res), seen \cup {r.url}, qwords)

\* a plausible slip: every surviving result is fetched
ToFetchAll(prelim) == SortByScore(prelim)

\* prelim.sort(...); to_fetch = prelim[:FETCH_TOP]
ToFetch(prelim) == Take(SortByScore(prelim), FETCH_TOP)

-----------------------------------------------------------------------------
(* extract_readable *)

ParasLimit == 6

\* [:TEXT_LIMIT] on a text, in whole words
RECURSIVE Truncate(_, _)
Truncate(t, n) ==
    IF t = <<>> THEN <<>>
    ELSE LET c == CharLen(Head(t).w) + (IF Head(t).end THEN 1 ELSE 0)
         IN  IF c > n THEN <<>>
             ELSE <<Head(t)>> \o Truncate(Tail(t), n - c - 1)

\* the fallback path on a parsed page: the description meta content and the
\* text of the first 6 paragraphs, whitespace collapsed, cut to TEXT_LIMIT
HtmlText(page) ==
    Truncate(page.meta \o Flatten(Take(page.paras, ParasLimit)), TEXT_LIMIT)

\* lines 158-168: the fallback path; http says whether requests.get or the
\* parser raise
HtmlFallback(page, http) ==
    IF http = "raise" THEN <<>> ELSE HtmlText(page)

PrimaryMinWords == 40

\* a plausible slip: any non-empty extraction is accepted
PrimaryAcceptedAnyText(ex) == ex # <<>>

\* ex and len(ex.split()) > 40
PrimaryAccepted(ex) == ex # <<>> /\ Len(ex) > PrimaryMinWords

\* what trafilatura does on the URL: fetch_url raises, gives None or gives a
\* download; extract raises, gives None or gives a text
NoPrimary == [fetch |-> "none", extract |-> "none", text |-> <<>>]

\* extract_readable(url) under a value use of USE_TRAFILATURA: prim is what
\* trafilatura does, page is what the URL serves, http as above.  The result
\* is the text returned and the calls made, in order.
extract_readable_with(use, prim, page, http) ==
    LET tried_a == IF ~use THEN <<>>
                   ELSE IF prim.fetch = "ok"
                        THEN <<"trafilatura.fetch_url", "trafilatura.extract">>
                        ELSE <<"trafilatura.fetch_url">>
        taken   == /\ use /\ prim.fetch = "ok" /\ prim.extract = "text"
                   /\ PrimaryAccepted(prim.text)
    IN  IF taken
        THEN [text |-> Truncate(prim.text, TEXT_LIMIT), tried |-> tried_a]
        ELSE [text  |-> HtmlFallback(page, http),
              tried |-> Append(tried_a, "requests.get")]

\* extract_readable(url) as configured
extract_readable(page, http) ==
    extract_readable_with(USE_TRAFILATURA, NoPrimary, page, http).text

-----------------------------------------------------------------------------
(* Answers *)

DidntCatch == "I didn't catch that. Please try again."
NotFound   == "Sorry, I couldn't find a good answer on the web."
NoPages    == "Sorry, I couldn't get a clear answer from the pages I found."
NoClear    == "Sorry, I couldn't get a clear answer."

FixedSentences == {DidntCatch, NotFound, NoPages, NoClear}

\* an answer string: a fixed sentence, or a summary followed by the suffix
\* " (Source: <host>)"; source is <<host>> when the suffix is there
Fixed(msg) == [fixed |-> msg, text |-> <<>>, source |-> <<>>]

\* a plausible slip: the summary is returned without its attribution
FormatBare(ans, host) ==
    IF ans # <<>> THEN [fixed |-> "", text |-> ans, source |-> <<>>]
    ELSE Fixed(NoClear)

\* f"{ans} (Source: {host})" if ans else "Sorry, I couldn't get a clear answer."
Format(ans, host) ==
    IF ans # <<>> THEN [fixed |-> "", text |-> ans, source |-> <<host>>]
    ELSE Fixed(NoClear)

NoRet == [status |-> "none", answer |-> Fixed(""), sources |-> <<>>]
Returned(a, src) == [status |-> "returned", answer |-> a, sources |-> src]
Raised == [status |-> "raised", answer |-> Fixed(""), sources |-> <<>>]

\* title or url
Label(title, url) ==
    IF title # <<>> THEN [title |-> title, url |-> NoUrl]
    ELSE [title |-> <<>>, url |-> url]

\* a plausible slip: ties go to the candidate fetched last
BestLastOfTies(cands) ==
    LET sorted == SortByScore(cands)
        top == {i \in DOMAIN sorted : ~ScoreGreater(sorted[1], sorted[i])}
    IN  sorted[CHOOSE i \in top : \A j \in top : j <= i]

\* candidates.sort(key=lambda x: x[0], reverse=True); best = candidates[0]
Best(cands) == SortByScore(cands)[1]

-----------------------------------------------------------------------------
(* Inputs of summarize *)

\* a sentence fragment without terminal punctuation: it runs into the next one
Frag  == <<W("Paris"), W("the"), W("city")>>
S3    == <<W("the"), W("city"), WE("city")>>
S6    == Rep(W("city"), 5) \o <<WE("city")>>
S7kw1 == <<W("paris")>> \o Rep(W("city"), 5) \o <<WE("the")>>
S6kw2 == <<W("Paris"), W("the"), W("capital")>> \o Rep(W("city"), 2) \o <<WE("city")>>
S37   == <<W("capital"), W("paris")>> \o Rep(W("the"), 34) \o <<WE("city")>>

SentencePool == {Frag, S3, S6, S7kw1, S6kw2, S37}

RECURSIVE SeqsUpTo(_, _)
SeqsUpTo(S, n) ==
    IF n = 0 THEN {<<>>}
    ELSE LET shorter == SeqsUpTo(S, n - 1)
         IN  shorter \cup {Append(q, x) : q \in shorter, x \in S}

Texts == {Flatten(ss) : ss \in SeqsUpTo(SentencePool, MaxSents)}

QwordSets == {{"paris", "capital"}, {"the", "paris"}}

NoOut == [path |-> "none", idx |-> <<>>, sent |-> <<>>]

-----------------------------------------------------------------------------
(* State machine of one call of summarize *)

PipelineIdle ==
    /\ pc = "idle" /\ user_query = <<>> /\ sentences = 0 /\ q1 = <<>>
    /\ results = <<>> /\ first = <<>> /\ phrase = <<>>
    /\ to_fetch = <<>> /\ fi = 0
    /\ candidates = <<>> /\ sources = <<>>
    /\ ret = NoRet /\ calls = <<>>

SumIdle ==
    /\ s_pc = "idle" /\ s_text = <<>> /\ s_qwords = {} /\ s_k = 0
    /\ s_out = NoOut

\* no single function is being called
FnIdle == f_pc = "idle" /\ f_arg = <<>> /\ f_out = <<>>

\* lines 47-51: the session state as first created; nothing is played
NoAudio == [file |-> "None", is_playing |-> FALSE, is_paused |-> FALSE]

AudioIdle ==
    /\ HAVE_PYGAME = FALSE /\ pygame_init = FALSE /\ audio = NoAudio
    /\ a_log = <<>>

SumInit ==
    /\ PipelineIdle /\ FnIdle /\ AudioIdle
    /\ s_pc = "call"
    /\ s_text \in Texts
    /\ s_qwords \in QwordSets
    /\ s_k \in 1..MaxK
    /\ s_out = NoOut

SumCall ==
    /\ s_pc = "call"
    /\ s_out' = summarize(s_text, s_qwords, s_k)
    /\ s_pc' = "done"
    /\ UNCHANGED <<s_text, s_qwords, s_k, pvars, fvars, avars>>

SumNext == SumCall

SpecSum == SumInit /\ [][SumNext]_vars

-----------------------------------------------------------------------------
(* Inputs of web_answer: questions, the search index, the pages *)

\* most results one search call returns in the model
MaxRes == 3

DefaultSentences == 3

Queries == {<<>>, <<" ">>, <<" ", "Who", " ", "is", " ", "Paris", "?", " ">>,
            <<"capitol">>}

\* what the spell checker does in one invocation
SpellBehaviours ==
    [unknown : {"raise", "all", "none"},
     correction : {<<"raise">>, <<>>, <<"capital">>, <<"dome">>}]

U_a1     == [netloc |-> <<"example.", "com">>, path |-> <<"/a">>]
U_a2     == [netloc |-> <<"example.", "com">>, path |-> <<"/b">>]
U_b      == [netloc |-> <<"city.", "org">>, path |-> <<>>]
U_d      == [netloc |-> <<"wiki.", "org">>, path |-> <<"/paris">>]
U_reddit == [netloc |-> <<"www.", "reddit.", "com">>, path |-> <<"/r">>]

R_a1 == [url |-> U_a1, title |-> <<W("Capital"), W("of"), W("France")>>,
         body |-> <<W("Paris"), W("is"), W("the"), WE("capital")>>]
R_a2 == [url |-> U_a2, title |-> <<>>, body |-> <<WE("Paris")>>]
R_b  == [url |-> U_b, title |-> <<W("Paris")>>, body |-> <<W("Paris"), W("city")>>]
R_d  == [url |-> U_d, title |-> <<>>, body |-> <<W("the"), W("capital")>>]
R_reddit == [url |-> U_reddit, title |-> <<W("Paris")>>, body |-> <<>>]
\* the first URL again, as a search for another phrase presents it
R_a1x == [url |-> U_a1, title |-> <<W("Paris")>>,
          body |-> <<W("Paris"), W("capital")>>]
R_none   == [url |-> NoUrl, title |-> <<W("Paris")>>, body |-> <<>>]

\* the search engine's ranking; a search call returns some of it, in order
Index == <<R_a1, R_none, R_b, R_reddit, R_a2, R_d>>

Reverse(seq) == [i \in DOMAIN seq |-> seq[Len(seq) + 1 - i]]

RECURSIVE Pick(_, _, _)
Pick(seq, S, i) ==
    IF i > Len(seq) THEN <<>>
    ELSE (IF i \in S THEN <<seq[i]>> ELSE <<>>) \o Pick(seq, S, i + 1)

SubSeqsUpTo(seq, n) ==
    {Pick(seq, S, 1) : S \in {T \in SUBSET DOMAIN seq : Cardinality(T) <= n}}

\* what ddg.text can return for the question, and for a suggested phrase
SearchAnswers    == SubSeqsUpTo(Index, Min(MaxRes, MAX_RESULTS))
ExpansionIndex   == <<R_d, R_a2, R_reddit, R_b, R_none, R_a1x>>
ExpansionAnswers == SubSeqsUpTo(ExpansionIndex, Min(MaxRes, MAX_RESULTS))

\* what list(ddg.suggestions(q1)) can be
SuggestionLists ==
    {<<>>} \cup {<<[phrase |-> ph]>> : ph \in {<<>>, <<"paris">>, <<"capitol">>}}

\* what each URL serves
Page(url) ==
    CASE url = U_a1 -> [meta |-> <<>>, paras |-> <<S6, S6kw2, S7kw1>>]
      [] url = U_a2 -> [meta |-> S7kw1, paras |-> <<>>]
      [] url = U_b  -> [meta |-> <<>>, paras |-> <<S3, S3, S3, S3, S3, S3, S6kw2>>]
      [] url = U_d  -> [meta |-> <<>>, paras |-> <<S7kw1>>]
      [] OTHER      -> [meta |-> <<>>, paras |-> <<>>]

\* one collaborator call: what was called, on which URL, whether it raised,
\* and for a page fetch whether extract_readable gave text
Call(op, url, fail, out) == [op |-> op, url |-> url, fail |-> fail, out |-> out]

-----------------------------------------------------------------------------
(* State machine of one invocation of web_answer (src/app.py) *)

Init ==
    /\ SumIdle /\ FnIdle /\ AudioIdle
    /\ pc = "start"
    /\ user_query \in Queries
    /\ sentences = DefaultSentences
    /\ q1 = <<>> /\ results = <<>> /\ first = <<>> /\ phrase = <<>>
    /\ to_fetch = <<>> /\ fi = 0 /\ candidates = <<>> /\ sources = <<>>
    /\ ret = NoRet /\ calls = <<>>

\* a plausible slip: only the empty string is refused
IsBlankNoStrip(q) == q = <<>>

\* not user_query.strip()
IsBlank(q) == Strip(q) = <<>>

\* lines 185-188: the empty check, clean_question, soft_spellfix
Begin ==
    /\ pc = "start"
    /\ IF IsBlank(user_query)
       THEN /\ ret' = Returned(Fixed(DidntCatch), <<>>)
            /\ pc' = "done"
            /\ UNCHANGED <<q1, calls>>
       ELSE \E sp \in SpellBehaviours :
            LET q0 == clean_question(user_query)
                r  == soft_spellfix(q0, sp)
                asked == \E w \in SpellCandidates(SplitWords(q0, <<>>)) :
                            sp.unknown = "all"
            IN  /\ calls' = calls
                      \o <<Call("spell.unknown", NoUrl, sp.unknown = "raise", "")>>
                      \o (IF asked
                          THEN <<Call("spell.correction", NoUrl, r.raised, "")>>
                          ELSE <<>>)
                /\ IF r.raised
                   THEN /\ ret' = Raised /\ pc' = "raised" /\ q1' = q1
                   ELSE /\ q1' = r.q /\ pc' = "search" /\ ret' = ret
    /\ UNCHANGED <<user_query, sentences, results, first, phrase, to_fetch, fi,
                   candidates, sources, svars, fvars, avars>>

\* line 191: the first search, outside any try
Search ==
    /\ pc = "search"
    /\ \/ \E res \in SearchAnswers :
             /\ results' = results \o res
             /\ first' = res
             /\ pc' = "suggest"
             /\ ret' = ret
             /\ calls' = Append(calls, Call("search", NoUrl, FALSE, ""))
       \/ /\ ret' = Raised /\ pc' = "raised"
          /\ calls' = Append(calls, Call("search", NoUrl, TRUE, ""))
          /\ UNCHANGED <<results, first>>
    /\ UNCHANGED <<user_query, sentences, q1, phrase, to_fetch, fi,
                   candidates, sources, svars, fvars, avars>>

\* phrase and phrase.lower() != q1.lower()
TriggersExpansion(ph, q) == ph # <<>> /\ LowerAll(ph) # LowerAll(q)

\* lines 192-196: the suggestion lookup, inside the try
Suggest ==
    /\ pc = "suggest"
    /\ \/ /\ \E suggs \in SuggestionLists :
                IF suggs # <<>> /\ TriggersExpansion(suggs[1].phrase, q1)
                THEN phrase' = suggs[1].phrase /\ pc' = "expand"
                ELSE phrase' = phrase /\ pc' = "filter"
          /\ calls' = Append(calls, Call("suggest", NoUrl, FALSE, ""))
       \/ /\ pc' = "filter" /\ phrase' = phrase
          /\ calls' = Append(calls, Call("suggest", NoUrl, TRUE, ""))
    /\ UNCHANGED <<user_query, sentences, q1, results, first, to_fetch, fi,
                   candidates, sources, ret, svars, fvars, avars>>

\* a plausible slip: the handler starts over with an empty list
AfterFailedExpansionEmpty(res) == <<>>

\* except Exception: pass -- results is what it was before the call
AfterFailedExpansion(res) == res

\* line 197: the search for the suggested phrase, inside the try
Expand ==
    /\ pc = "expand"
    /\ \/ /\ \E res \in ExpansionAnswers : results' = results \o res
          /\ calls' = Append(calls, Call("expand", NoUrl, FALSE, ""))
       \/ /\ results' = AfterFailedExpansion(results)
          /\ calls' = Append(calls, Call("expand", NoUrl, TRUE, ""))
    /\ pc' = "filter"
    /\ UNCHANGED <<user_query, sentences, q1, first, phrase, to_fetch, fi,
                   candidates, sources, ret, svars, fvars, avars>>

\* lines 200-213: filter, score, sort, cut
Filter ==
    /\ pc = "filter"
    /\ LET prelim == Prelim(results, {}, keywords(q1)) IN
       IF prelim = <<>>
       THEN /\ ret' = Returned(Fixed(NotFound), <<>>)
            /\ pc' = "done"
            /\ UNCHANGED <<to_fetch, fi>>
       ELSE /\ to_fetch' = ToFetch(prelim)
            /\ fi' = 1
            /\ pc' = "fetch"
            /\ ret' = ret
    /\ UNCHANGED <<user_query, sentences, q1, results, first, phrase,
                   candidates, sources, calls, svars, fvars, avars>>

\* a plausible slip: break instead of continue on an empty page
NextAfterBreak(i, txt, n) == IF txt = <<>> THEN n + 1 ELSE i + 1

\* the for loop moves on to the next entry, also after `continue`
NextAfter(i, txt, n) == i + 1

\* lines 215-222: one turn of the loop over to_fetch
Fetch ==
    /\ pc = "fetch" /\ fi <= Len(to_fetch)
    /\ \E http \in {"ok", "raise"} :
       LET c   == to_fetch[fi]
           txt == extract_readable(Page(c.url), http)
       IN  /\ calls' = Append(calls, Call("fetch", c.url, http = "raise",
                                IF txt = <<>> THEN "empty" ELSE "text"))
           /\ fi' = NextAfter(fi, txt, Len(to_fetch))
           /\ IF txt = <<>>
              THEN UNCHANGED <<candidates, sources>>
              ELSE /\ candidates' = Append(candidates,
                        [score |-> Score(c.title, txt, keywords(q1)),
                         title |-> c.title, url |-> c.url, txt |-> txt])
                   /\ sources' = Append(sources,
                        [label |-> Label(c.title, c.url), url |-> c.url])
    /\ UNCHANGED <<pc, user_query, sentences, q1, results, first, phrase,
                   to_fetch, ret, svars, fvars, avars>>

\* lines 223-228: pick the best page, summarize, return
Finish ==
    /\ pc = "fetch" /\ fi > Len(to_fetch)
    /\ candidates' = SortByScore(candidates)
    /\ IF candidates = <<>>
       THEN ret' = Returned(Fixed(NoPages), sources)
       ELSE LET best == Best(candidates)
                out  == summarize(best.txt, keywords(q1), sentences)
            IN  ret' = Returned(Format(Joined(out), Netloc(best.url)),
                                Take(sources, 3))
    /\ pc' = "done"
    /\ UNCHANGED <<user_query, sentences, q1, results, first, phrase, to_fetch,
                   fi, sources, calls, svars, fvars, avars>>

Next == Begin \/ Search \/ Suggest \/ Expand \/ Filter \/ Fetch \/ Finish

Spec == Init /\ [][Next]_vars

-----------------------------------------------------------------------------
(* Claims about web_answer *)

\* the calls of one kind, in call order
CallsOf(ops) == SelectSeq(calls, LAMBDA c : c.op \in ops)

OnlyWhitespace(q) == \A i \in DOMAIN q : q[i] \in {" ", "\t"}

\* the URL string contains one of the excluded substrings
Excluded(url) ==
    \E b \in BAD_DOMAINS :
        (\E i \in DOMAIN url.netloc : url.netloc[i] = b)
        \/ (\E i \in DOMAIN url.path : url.path[i] = b)

\* the results that pass the empty-URL and excluded-domain tests
Survivors == {i \in DOMAIN results :
                 results[i].url # NoUrl /\ ~Excluded(results[i].url)}

\* the pages that gave text, in the order they were fetched
FetchedWithText == SelectSeq(CallsOf({"fetch"}), LAMBDA c : c.out = "text")

\* the final score of a fetched URL: the entry of candidates with that URL
CandidateOf(url) == CHOOSE c \in {candidates[i] : i \in DOMAIN candidates} : c.url = url

\* C1 (as claimed): web_answer never lets an exception reach its caller.
C1_NeverRaises == ret.status # "raised"

\* C2: a question that is empty or only whitespace returns the fixed
\* "didn't catch that" answer with no sources at once, and no collaborator
\* (spell check, search, suggestion, fetch) is called.
C2_BlankReturnsAtOnce ==
    (OnlyWhitespace(user_query) /\ pc # "start")
        => /\ pc = "done"
           /\ ret = Returned(Fixed(DidntCatch), <<>>)
           /\ calls = <<>>

\* C2 witness: a whitespace-only question has been answered
C2_Witness ==
    /\ user_query # <<>> /\ OnlyWhitespace(user_query)
    /\ pc = "done" /\ ret.status = "returned"

\* C3: whenever web_answer returns, sources has at most 3 pairs and the
\* answer either ends with the "(Source: <host>)" suffix or is exactly one
\* of the four fixed failure sentences.
C3_ReturnShape ==
    ret.status = "returned" =>
        /\ Len(ret.sources) <= 3
        /\ \/ /\ ret.answer.source # <<>>
              /\ ret.answer.fixed = ""
           \/ /\ ret.answer.fixed \in FixedSentences
              /\ ret.answer.text = <<>>
              /\ ret.answer.source = <<>>

\* C3 witness: four results survived the filter, three pages gave text and
\* the answer carries a source suffix
C3_Witness ==
    /\ ret.status = "returned"
    /\ Cardinality({results[i].url : i \in Survivors}) > 3
    /\ Len(ret.sources) = 3
    /\ ret.answer.source # <<>>

\* C4: when no result survives the filter, the answer is the "couldn't find
\* a good answer on the web" sentence and no page is fetched; when results
\* survive but every fetch gives empty text, the answer is the "couldn't get
\* a clear answer from the pages I found" sentence; the sources are empty in
\* both cases.
C4_NothingUsable ==
    (pc = "done" /\ ~OnlyWhitespace(user_query)) =>
        /\ Survivors = {}
              => /\ ret = Returned(Fixed(NotFound), <<>>)
                 /\ CallsOf({"fetch"}) = <<>>
        /\ (Survivors # {} /\ FetchedWithText = <<>>)
              => /\ ret = Returned(Fixed(NoPages), <<>>)
                 /\ CallsOf({"fetch"}) # <<>>

\* C4 witness: every result the searches returned was from an excluded domain
C4_Witness ==
    /\ pc = "done" /\ results # <<>>
    /\ \A i \in DOMAIN results : Excluded(results[i].url)
    /\ ret.answer = Fixed(NotFound)

\* C4, second case reached: pages were fetched and none gave text
C4_WitnessNoPages ==
    /\ pc = "done" /\ Len(CallsOf({"fetch"})) >= 2
    /\ ret.answer = Fixed(NoPages)

\* C7 (as claimed): the sources returned are in descending order of the
\* final score of their pages.
C7_SourcesInFinalScoreOrder ==
    (pc = "done" /\ ret.status = "returned") =>
        \A a, b \in DOMAIN ret.sources :
            a < b => ~ScoreGreater(CandidateOf(ret.sources[b].url),
                                   CandidateOf(ret.sources[a].url))

\* C7 (amended): the sources returned are the pages that gave text, in the
\* order they were fetched, which is descending preliminary score with ties
\* in search-result order; the final score plays no part in their order.
C7_SourcesInFetchOrder ==
    (pc = "done" /\ ret.status = "returned" /\ to_fetch # <<>>) =>
        /\ [i \in DOMAIN ret.sources |-> ret.sources[i].url]
              = [i \in DOMAIN FetchedWithText |-> FetchedWithText[i].url]
        /\ [i \in DOMAIN to_fetch |-> to_fetch[i].url]
              = [i \in DOMAIN CallsOf({"fetch"}) |-> CallsOf({"fetch"})[i].url]
        /\ \A a, b \in DOMAIN to_fetch :
              a < b => ~ScoreGreater(to_fetch[b], to_fetch[a])

\* C7 witness: two sources were returned and the later one has the higher
\* final score
C7_Witness ==
    /\ pc = "done" /\ ret.status = "returned"
    /\ \E a, b \in DOMAIN ret.sources :
          /\ a < b
          /\ ScoreGreater(CandidateOf(ret.sources[b].url),
                          CandidateOf(ret.sources[a].url))

\* the fetched pages with text, in fetch order, with their final scores
FetchedCandidates ==
    [i \in DOMAIN FetchedWithText |-> CandidateOf(FetchedWithText[i].url)]

\* C8: the page summarized and attributed is the one with the highest final
\* score among the pages that gave text, and among several with the highest
\* score, the one fetched first.
C8_BestIsTopScoreFirstFetched ==
    (pc = "done" /\ candidates # <<>>) =>
        \E i \in DOMAIN FetchedCandidates :
            LET c == FetchedCandidates[i] IN
            /\ \A j \in DOMAIN FetchedCandidates :
                  ~ScoreGreater(FetchedCandidates[j], c)
            /\ \A j \in DOMAIN FetchedCandidates :
                  j < i => ScoreGreater(c, FetchedCandidates[j])
            /\ ret.answer.source = <<c.url.netloc>>
            /\ ret.answer.text =
                  Joined(summarize(c.txt, keywords(q1), sentences))

\* C8 witness: the winner was not fetched first, and another page ties with it
C8_Witness ==
    /\ pc = "done" /\ Len(FetchedCandidates) >= 3
    /\ ret.answer.source # <<>>
    /\ ret.answer.source[1] # FetchedCandidates[1].url.netloc
    /\ \E i, j \in DOMAIN FetchedCandidates :
          /\ i # j
          /\ ~ScoreGreater(FetchedCandidates[i], FetchedCandidates[j])
          /\ ~ScoreGreater(FetchedCandidates[j], FetchedCandidates[i])
          /\ \A n \in DOMAIN FetchedCandidates :
                ~ScoreGreater(FetchedCandidates[n], FetchedCandidates[i])

\* C9: a failure while extracting one URL gives the empty string for that
\* URL; the URL is skipped, and every remaining entry of to_fetch is still
\* fetched and scored, so a later page can become the answer source.
C9_FailureSkipsOnlyThatUrl ==
    (pc = "done" /\ to_fetch # <<>>) =>
        LET fetches == CallsOf({"fetch"}) IN
        /\ Len(fetches) = Len(to_fetch)
        /\ \A i \in DOMAIN fetches :
              /\ fetches[i].url = to_fetch[i].url
              /\ fetches[i].fail => fetches[i].out = "empty"
              /\ fetches[i].out = "empty"
                    => \A n \in DOMAIN candidates : candidates[n].url # fetches[i].url
              /\ fetches[i].out = "text"
                    => \E n \in DOMAIN candidates : candidates[n].url = fetches[i].url
        /\ ret.status = "returned"

\* C9 witness: the first fetch failed and a later page is the answer source
C9_Witness ==
    /\ pc = "done" /\ Len(CallsOf({"fetch"})) >= 2
    /\ CallsOf({"fetch"})[1].fail
    /\ ret.answer.source # <<>>

\* C10: when the suggestion lookup or the search it triggers raises, the
\* failure is swallowed: results is exactly what the first search returned,
\* and the pipeline goes on to filtering, fetching and an answer.
C10_SuggestionFailureSwallowed ==
    (\E i \in DOMAIN calls : calls[i].op \in {"suggest", "expand"} /\ calls[i].fail)
        => /\ results = first
           /\ ret.status # "raised"
           /\ pc \in {"filter", "fetch", "done"}

\* C10 witness: the expansion search raised and the first search's results
\* still gave a sourced answer
C10_Witness ==
    /\ pc = "done" /\ first # <<>>
    /\ \E i \in DOMAIN calls : calls[i].op = "expand" /\ calls[i].fail
    /\ ret.answer.source # <<>>

-----------------------------------------------------------------------------
(* Claims about summarize *)

SumSents == SplitSents(s_text, <<>>)

\* C5: the sentences summarize returns appear in non-decreasing
\* original-index order, on the scored path and on the fallback path, and
\* each returned sentence is the sentence of the text at that index.
C5_SourceOrder ==
    s_pc = "done" =>
        /\ \A a, b \in 1..Len(s_out.idx) : a < b => s_out.idx[a] <= s_out.idx[b]
        /\ \A a \in 1..Len(s_out.idx) : s_out.sent[a] = SumSents[s_out.idx[a]]

\* C5 witness: a scored-path call whose relevance rank differs from text order
C5_Witness ==
    /\ s_pc = "done" /\ s_out.path = "scored" /\ Len(s_out.idx) >= 2
    /\ \E a, b \in 1..Len(s_out.idx) :
          /\ a < b
          /\ Overlap(s_out.sent[a], s_qwords) < Overlap(s_out.sent[b], s_qwords)

-----------------------------------------------------------------------------
(* soft_spellfix in the three variants, called on its own *)

Variants == {"app", "app_local", "app_cloud"}

\* the fallback class of src/app.py and src/app_cloud.py: unknown() gives
\* set(), so correction() is never called
NoOpSpeller == [unknown |-> "none", correction |-> <<>>]

\* soft_spellfix of src/app_local.py and src/app_cloud.py: speller.unknown
\* is called outside any try, the rest is as in src/app.py
soft_spellfix_unguarded(q, sp) ==
    IF sp.unknown = "raise" THEN [raised |-> TRUE, q |-> <<>>]
    ELSE soft_spellfix(q, sp)

\* the import of SpellChecker and one call soft_spellfix(q) in variant v;
\* pkg says whether "from spellchecker import SpellChecker" succeeds
SpellFix(v, pkg, q, sp) ==
    IF ~pkg /\ v = "app_local"
    THEN [status |-> "import_error", q |-> <<>>]
    ELSE LET eff == IF pkg THEN sp ELSE NoOpSpeller
             r   == IF v = "app" THEN soft_spellfix(q, eff)
                    ELSE soft_spellfix_unguarded(q, eff)
         IN  IF r.raised THEN [status |-> "raised", q |-> <<>>]
             ELSE [status |-> "returned", q |-> r.q]

\* questions as clean_question leaves them
SpellQuestions ==
    {<<"capitol">>, <<"Paris">>, <<"the", " ", "capitol">>,
     <<"capitol", " ", " ", "city">>}

SpellInit ==
    /\ PipelineIdle /\ SumIdle /\ AudioIdle
    /\ f_pc = "call"
    /\ f_arg \in [v : Variants, pkg : BOOLEAN, q : SpellQuestions,
                  sp : SpellBehaviours]
    /\ f_out = <<>>

SpellCall ==
    /\ f_pc = "call"
    /\ f_out' = SpellFix(f_arg.v, f_arg.pkg, f_arg.q, f_arg.sp)
    /\ f_pc' = "done"
    /\ UNCHANGED <<f_arg, pvars, svars, avars>>

SpellNext == SpellCall

SpecSpell == SpellInit /\ [][SpellNext]_vars

\* the spell-check collaborator failed in this call: the package is
\* missing, unknown() raised, or correction() was called and raised
SpellFailed(a) ==
    \/ ~a.pkg
    \/ a.sp.unknown = "raise"
    \/ /\ a.sp.unknown = "all" /\ a.sp.correction = <<"raise">>
       /\ SpellCandidates(SplitWords(a.q, <<>>)) # {}

\* C11 (as claimed): in every variant a failure of the spell-check
\* collaborator (package unavailable, unknown() raising, correction()
\* raising) makes soft_spellfix the identity on the question and no
\* exception leaves it.
C11_SpellFailureIsIdentity ==
    (f_pc = "done" /\ SpellFailed(f_arg))
        => /\ f_out.status = "returned"
           /\ f_out.q = f_arg.q

-----------------------------------------------------------------------------
(* clean_question called on its own *)

MaxQLen == 5

QTokens == {" ", "\t", "who", "is", "theory", "paris", "?"}

\* every question of at most MaxQLen tokens
Questions == UNION {[1..n -> QTokens] : n \in 0..MaxQLen}

CleanInit ==
    /\ PipelineIdle /\ SumIdle /\ AudioIdle
    /\ f_pc = "call"
    /\ f_arg \in Questions
    /\ f_out = <<>>

CleanCall ==
    /\ f_pc = "call"
    /\ f_out' = clean_question(f_arg)
    /\ f_pc' = "done"
    /\ UNCHANGED <<f_arg, pvars, svars, avars>>

CleanNext == CleanCall

SpecClean == CleanInit /\ [][CleanNext]_vars

\* r starts with an interrogative phrase, whitespace and an auxiliary
StartsWithInterrogativeAux(r) ==
    \E p \in Interrogatives :
        /\ StartsWith(r, p)
        /\ Len(r) > Len(p) /\ r[Len(p) + 1] \in {" ", "\t"}
        /\ LET rest == LStrip(SubSeq(r, Len(p) + 1, Len(r)), {" ", "\t"})
           IN  rest # <<>> /\ Lower(Head(rest)) \in {"is", "are", "was", "were", "the"}

\* r starts with an interrogative phrase and whitespace
StartsWithInterrogative(r) ==
    \E p \in Interrogatives :
        StartsWith(r, p) /\ Len(r) > Len(p) /\ r[Len(p) + 1] \in {" ", "\t"}

EndsWithAny(r, chars) == r # <<>> /\ r[Len(r)] \in chars

\* C12 (as claimed): clean_question(q) never starts with a stripped
\* interrogative phrase followed by an auxiliary, and never ends with '?',
\* '.', '!' or a space.
C12_NeverInterrogativeNorTrailing ==
    f_pc = "done" =>
        /\ ~StartsWithInterrogativeAux(f_out)
        /\ ~EndsWithAny(f_out, {"?", ".", "!", " "})

\* C12 (amended): clean_question(q) never starts or ends with whitespace;
\* when q holds no whitespace other than the space it never ends with '?',
\* '.' or '!'; and it starts with an interrogative phrase followed by an
\* auxiliary only when a leading interrogative phrase of q was removed and
\* another one stood behind it (the pattern is applied once).
C12_OnePhraseRemoved ==
    f_pc = "done" =>
        /\ f_out # <<>> => Head(f_out) \notin {" ", "\t"}
        /\ ~EndsWithAny(f_out, {" ", "\t"})
        /\ (\A i \in DOMAIN f_arg : f_arg[i] # "\t")
              => ~EndsWithAny(f_out, {"?", ".", "!"})
        /\ StartsWithInterrogativeAux(f_out)
              => /\ StartsWithInterrogative(LStrip(f_arg, {" ", "\t"}))
                 /\ Len(f_out) < Len(LStrip(f_arg, {" ", "\t"}))

\* C12 witness: a question that starts with an interrogative and an
\* auxiliary and ends with '?' was cleaned to what stands between them
C12_Witness ==
    /\ f_pc = "done"
    /\ StartsWithInterrogativeAux(f_arg)
    /\ EndsWithAny(f_arg, {"?"})
    /\ f_out # <<>>
    /\ ~StartsWithInterrogativeAux(f_out)

-----------------------------------------------------------------------------
(* Further claims about web_answer *)

\* the URLs that pass the empty-URL and excluded-domain tests
SurvivorUrls == {results[i].url : i \in Survivors}

\* the first result with that URL, in search-result order
FirstResult(url) ==
    results[CHOOSE i \in DOMAIN results :
                /\ results[i].url = url
                /\ \A j \in DOMAIN results : results[j].url = url => i <= j]

\* the preliminary score of a URL: that of its first result, on title + snippet
PrelimEntry(url) ==
    [score |-> Score(FirstResult(url).title, FirstResult(url).body, keywords(q1))]

FetchedUrls == {calls[i].url : i \in {j \in DOMAIN calls : calls[j].op = "fetch"}}

\* C13: in one invocation there are at most two search calls, the second
\* only after a suggestion lookup whose first phrase is non-empty and
\* differs from the question without regard to case, and at most 3 page
\* fetches, which are the candidates with the 3 highest preliminary scores.
C13_BoundedCalls ==
    /\ Len(CallsOf({"search"})) <= 1
    /\ Len(CallsOf({"search", "expand"})) <= 2
    /\ \A i \in DOMAIN calls :
          calls[i].op = "expand"
             => /\ i > 2
                /\ calls[i - 1].op = "suggest" /\ ~calls[i - 1].fail
                /\ calls[i - 2].op = "search" /\ ~calls[i - 2].fail
                /\ phrase # <<>>
                /\ LowerAll(phrase) # LowerAll(q1)
    /\ Len(CallsOf({"fetch"})) <= 3
    /\ (pc = "done" /\ ~OnlyWhitespace(user_query))
          => /\ Cardinality(FetchedUrls) = Min(3, Cardinality(SurvivorUrls))
             /\ FetchedUrls \subseteq SurvivorUrls
             /\ \A u \in FetchedUrls : \A v \in SurvivorUrls \ FetchedUrls :
                   ~ScoreGreater(PrelimEntry(v), PrelimEntry(u))

\* C13 witness: both searches ran, more than three URLs survived, three were
\* fetched and one with a lower preliminary score was left out
C13_Witness ==
    /\ pc = "done"
    /\ \E i \in DOMAIN calls : calls[i].op = "expand" /\ ~calls[i].fail
    /\ Cardinality(SurvivorUrls) > 3
    /\ Len(CallsOf({"fetch"})) = 3
    /\ \E u \in FetchedUrls : \E v \in SurvivorUrls \ FetchedUrls :
          ScoreGreater(PrelimEntry(u), PrelimEntry(v))

\* C14: after filtering the candidate list holds one entry per URL, that of
\* the first occurrence in search-result order, and none with an empty URL;
\* so no URL is fetched twice, also when both searches return the same URL.
C14_OneEntryPerUrl ==
    (pc \in {"fetch", "done"} /\ to_fetch # <<>>) =>
        /\ \A a, b \in DOMAIN to_fetch :
              a # b => to_fetch[a].url # to_fetch[b].url
        /\ \A a \in DOMAIN to_fetch :
              /\ to_fetch[a].url # NoUrl
              /\ to_fetch[a].title = FirstResult(to_fetch[a].url).title
              /\ to_fetch[a].score = PrelimEntry(to_fetch[a].url).score
        /\ Cardinality(SurvivorUrls) <= 3
              => {to_fetch[a].url : a \in DOMAIN to_fetch} = SurvivorUrls
        /\ \A i, j \in DOMAIN calls :
              (i # j /\ calls[i].op = "fetch" /\ calls[j].op = "fetch")
                 => calls[i].url # calls[j].url

\* C14 witness: the first search and the expansion search both returned the
\* same URL, under different titles, next to a result with an empty URL, and
\* that URL was fetched
C14_Witness ==
    /\ pc = "done"
    /\ \E i, j \in DOMAIN results :
          /\ i <= Len(first) /\ j > Len(first)
          /\ results[i].url = results[j].url
          /\ results[i].title # results[j].title
          /\ results[i].url \in FetchedUrls
    /\ \E i \in DOMAIN results : results[i].url = NoUrl

\* C17: when the answer carries a "(Source: <host>)" suffix, the host is the
\* network location of a URL in the returned sources, and every URL in the
\* returned sources was fetched in this invocation, gave non-empty text and
\* is neither empty nor from an excluded domain.
C17_SourcesWereFetched ==
    ret.status = "returned" =>
        /\ ret.answer.source # <<>>
              => \E i \in DOMAIN ret.sources :
                    ret.answer.source = <<ret.sources[i].url.netloc>>
        /\ \A i \in DOMAIN ret.sources :
              /\ ret.sources[i].url # NoUrl
              /\ ~Excluded(ret.sources[i].url)
              /\ \E n \in DOMAIN calls :
                    /\ calls[n].op = "fetch" /\ calls[n].url = ret.sources[i].url
                    /\ calls[n].out = "text" /\ ~calls[n].fail

\* C17 witness: a sourced answer with two sources, after a search that also
\* returned an excluded URL and a fetch that gave nothing
C17_Witness ==
    /\ pc = "done" /\ ret.answer.source # <<>>
    /\ Len(ret.sources) = 2
    /\ \E i \in DOMAIN results : Excluded(results[i].url)
    /\ \E n \in DOMAIN calls : calls[n].op = "fetch" /\ calls[n].out = "empty"

-----------------------------------------------------------------------------
(* Further claims about summarize *)

\* the indices of the sentences sents with 6 to 40 words
EligibleIdx(sents) == {i \in 1..Len(sents) : Len(sents[i]) >= 6 /\ Len(sents[i]) <= 40}

\* the indices summarize returned
ChosenIdx == {s_out.idx[a] : a \in 1..Len(s_out.idx)}

\* the overlap of every sentence of sents with the question's words
Overlaps(sents) == [i \in 1..Len(sents) |-> Overlap(sents[i], s_qwords)]

\* sentence i stands before sentence j under (descending overlap, ascending index)
Outranks(ov, i, j) == ov[i] > ov[j] \/ (ov[i] = ov[j] /\ i < j)

\* C16: when some sentence has 6 to 40 words, summarize returns exactly the
\* first max(2,k) eligible sentences under (descending overlap, ascending
\* index); an eligible sentence whose overlap is strictly above every other
\* eligible sentence's is always returned.
C16_TopRankedChosen ==
    s_pc = "done" =>
        LET sents == SumSents
            E     == EligibleIdx(sents)
            S     == ChosenIdx
            ov    == Overlaps(sents)
        IN  E # {} =>
            /\ s_out.path = "scored"
            /\ S \subseteq E
            /\ Len(s_out.idx) = Cardinality(S)
            /\ Cardinality(S) = Min(Max(2, s_k), Cardinality(E))
            /\ \A i \in S : \A j \in E \ S : Outranks(ov, i, j)
            /\ \A i \in E : (\A j \in E \ {i} : ov[i] > ov[j]) => i \in S

\* C16 witness: more eligible sentences than the cut; the one with the
\* strictly highest overlap stands last in the text and an earlier eligible
\* sentence was left out for it
C16_Witness ==
    /\ s_pc = "done" /\ s_out.path = "scored"
    /\ LET sents == SumSents
           E     == EligibleIdx(sents)
           S     == ChosenIdx
           ov    == Overlaps(sents)
       IN  /\ Cardinality(E) > Max(2, s_k)
           /\ \E i \in S :
                 /\ \A j \in E \ {i} : j < i /\ ov[i] > ov[j]
                 /\ \E j \in E \ S : j < i

-----------------------------------------------------------------------------
(* extract_readable called on its own, with the primary path on or off *)

\* texts trafilatura.extract can give: the empty string, 10, 40 and 41 words
PrimaryTexts ==
    {<<>>, Rep(W("city"), 9) \o <<WE("city")>>,
     Rep(W("city"), 39) \o <<WE("city")>>, Rep(W("city"), 40) \o <<WE("city")>>}

PrimaryBehaviours ==
    {[fetch |-> "raise", extract |-> "none", text |-> <<>>],
     NoPrimary,
     [fetch |-> "ok", extract |-> "raise", text |-> <<>>],
     [fetch |-> "ok", extract |-> "none", text |-> <<>>]}
    \cup {[fetch |-> "ok", extract |-> "text", text |-> t] : t \in PrimaryTexts}

Pages == {Page(u) : u \in {U_a1, U_a2, U_b, U_d, U_reddit}}

ExtractInit ==
    /\ PipelineIdle /\ SumIdle /\ AudioIdle
    /\ f_pc = "call"
    /\ f_arg \in [use : BOOLEAN, prim : PrimaryBehaviours, page : Pages,
                  http : {"ok", "raise"}]
    /\ f_out = <<>>

ExtractCall ==
    /\ f_pc = "call"
    /\ f_out' = extract_readable_with(f_arg.use, f_arg.prim, f_arg.page, f_arg.http)
    /\ f_pc' = "done"
    /\ UNCHANGED <<f_arg, pvars, svars, avars>>

ExtractNext == ExtractCall

SpecExtract == ExtractInit /\ [][ExtractNext]_vars

\* the primary path gave a text of n words
PrimaryGave(a, n) ==
    a.prim.fetch = "ok" /\ a.prim.extract = "text" /\ Len(a.prim.text) = n

\* C15: with the primary path enabled, extract_readable returns the primary
\* text only when it has more than 40 words; when the primary path raises,
\* gives nothing or gives 40 words or fewer, the HTML fallback is attempted
\* next and its result (the empty string when it fails) is returned.
C15_PrimaryThenFallback ==
    (f_pc = "done" /\ f_arg.use) =>
        IF \E n \in 41..100 : PrimaryGave(f_arg, n)
        THEN /\ f_out.text = f_arg.prim.text
             /\ f_out.tried = <<"trafilatura.fetch_url", "trafilatura.extract">>
        ELSE /\ f_out.tried[Len(f_out.tried)] = "requests.get"
             /\ f_out.tried[1] = "trafilatura.fetch_url"
             /\ f_arg.http = "raise" => f_out.text = <<>>
             /\ f_arg.http = "ok"
                   => f_out.text = f_arg.page.meta
                                      \o Flatten(Take(f_arg.page.paras, 6))

\* C15 witness: the primary path gave a 10-word text, and the text returned
\* is the one the fallback built from the page
C15_Witness ==
    /\ f_pc = "done" /\ f_arg.use
    /\ PrimaryGave(f_arg, 10)
    /\ f_out.text # <<>> /\ f_out.text # f_arg.prim.text

-----------------------------------------------------------------------------
(* The audio session state and the four playback functions (src/app.py) *)

MaxOps == 4

Paths == {"a.wav", "b.wav"}

\* a plausible slip: pause does not ask whether anything is playing
PauseGuardAnyTime(have, init, a) == have /\ init

\* line 73: HAVE_PYGAME and pygame_init and audio["is_playing"]
PauseGuard(have, init, a) == have /\ init /\ a.is_playing

\* line 80: HAVE_PYGAME and pygame_init and audio["is_paused"]
ResumeGuard(have, init, a) == have /\ init /\ a.is_paused

\* stop_audio(): whether or not mixer.music.stop() is called or raises, both
\* flags end false
stop_audio(a) == [a EXCEPT !.is_playing = FALSE, !.is_paused = FALSE]

\* pause_audio(): ok says that mixer.music.pause() does not raise
pause_audio(have, init, a, ok) ==
    IF PauseGuard(have, init, a) /\ ok THEN [a EXCEPT !.is_paused = TRUE] ELSE a

\* resume_audio(): ok says that mixer.music.unpause() does not raise
resume_audio(have, init, a, ok) ==
    IF ResumeGuard(have, init, a) /\ ok THEN [a EXCEPT !.is_paused = FALSE] ELSE a

\* ensure_pygame(): init_ok says that mixer.pre_init / mixer.init do not
\* raise; the result is the value returned and pygame_init afterwards
ensure_pygame(have, init, init_ok) ==
    IF ~have THEN [ok |-> FALSE, init |-> init]
    ELSE IF init THEN [ok |-> TRUE, init |-> TRUE]
    ELSE IF init_ok THEN [ok |-> TRUE, init |-> TRUE]
    ELSE [ok |-> FALSE, init |-> FALSE]

\* play_wav_pc(path): play_ok says that mixer.music.load and play do not
\* raise; the result is pygame_init and audio afterwards
play_wav_pc(have, init, a, path, init_ok, play_ok) ==
    LET e  == ensure_pygame(have, init, init_ok)
        a1 == stop_audio(a)
    IN  IF ~e.ok THEN [init |-> e.init, audio |-> a]
        ELSE IF play_ok
             THEN [init |-> e.init,
                   audio |-> [a1 EXCEPT !.file = path, !.is_playing = TRUE,
                                        !.is_paused = FALSE]]
             ELSE [init |-> e.init,
                   audio |-> [a1 EXCEPT !.is_playing = FALSE, !.is_paused = FALSE]]

\* one entry of the history: the call and the state it found
Entry(op) == [op |-> op, audio |-> audio, init |-> pygame_init]

AudioInit ==
    /\ PipelineIdle /\ SumIdle /\ FnIdle
    /\ HAVE_PYGAME \in BOOLEAN
    /\ pygame_init = FALSE
    /\ audio = NoAudio
    /\ a_log = <<>>

Play ==
    /\ Len(a_log) < MaxOps
    /\ \E path \in Paths, init_ok \in BOOLEAN, play_ok \in BOOLEAN :
          LET r == play_wav_pc(HAVE_PYGAME, pygame_init, audio, path,
                               init_ok, play_ok)
          IN  pygame_init' = r.init /\ audio' = r.audio
    /\ a_log' = Append(a_log, Entry("play_wav_pc"))
    /\ UNCHANGED <<HAVE_PYGAME, pvars, svars, fvars>>

Pause ==
    /\ Len(a_log) < MaxOps
    /\ \E ok \in BOOLEAN :
          audio' = pause_audio(HAVE_PYGAME, pygame_init, audio, ok)
    /\ a_log' = Append(a_log, Entry("pause_audio"))
    /\ UNCHANGED <<HAVE_PYGAME, pygame_init, pvars, svars, fvars>>

Resume ==
    /\ Len(a_log) < MaxOps
    /\ \E ok \in BOOLEAN :
          audio' = resume_audio(HAVE_PYGAME, pygame_init, audio, ok)
    /\ a_log' = Append(a_log, Entry("resume_audio"))
    /\ UNCHANGED <<HAVE_PYGAME, pygame_init, pvars, svars, fvars>>

Stop ==
    /\ Len(a_log) < MaxOps
    /\ audio' = stop_audio(audio)
    /\ a_log' = Append(a_log, Entry("stop_audio"))
    /\ UNCHANGED <<HAVE_PYGAME, pygame_init, pvars, svars, fvars>>

AudioNext == Play \/ Pause \/ Resume \/ Stop

SpecAudio == AudioInit /\ [][AudioNext]_vars

\* the call made last, with the state it found
LastCall == a_log[Len(a_log)]

\* C18: after any sequence of play_wav_pc, pause_audio, resume_audio and
\* stop_audio calls, whose mixer calls succeed or raise, is_paused implies
\* is_playing; stop_audio leaves both flags false; and pause_audio and
\* resume_audio change nothing when their guard does not hold.
C18_AudioFlags ==
    /\ audio.is_paused => audio.is_playing
    /\ a_log # <<>> =>
          /\ LastCall.op = "stop_audio"
                => ~audio.is_playing /\ ~audio.is_paused
          /\ ( /\ LastCall.op = "pause_audio"
               /\ ~(HAVE_PYGAME /\ LastCall.init /\ LastCall.audio.is_playing) )
                => audio = LastCall.audio /\ pygame_init = LastCall.init
          /\ ( /\ LastCall.op = "resume_audio"
               /\ ~(HAVE_PYGAME /\ LastCall.init /\ LastCall.audio.is_paused) )
                => audio = LastCall.audio /\ pygame_init = LastCall.init

\* C18 witness: a file was played and paused, stop_audio found it paused, and
\* pause_audio was then called with nothing playing
C18_Witness ==
    /\ Len(a_log) = 4
    /\ a_log[3].op = "stop_audio"
    /\ a_log[3].audio.is_playing /\ a_log[3].audio.is_paused
    /\ a_log[4].op = "pause_audio"
    /\ ~audio.is_playing /\ ~audio.is_paused

====
